---- MODULE Spec2Model ----
(***************************************************************************)
(* ca-signer: the HTTPS handler that turns a CSR into a provisioner token  *)
(* and forwards it to the CA (main.go, the second Go file of               *)
(* src/examples/client.go, lines 123-361).                                 *)
(*                                                                         *)
(* One request slot per element of Reqs.  A request runs the handler of    *)
(* lines 260-311 in three steps, split where the handler blocks in a call  *)
(* on the provisioner: Handle (path check, decode, Validate, SAN and       *)
(* subject derivation, the call of Token), TokenOK / TokenFail (Token      *)
(* returns, the call of Sign) and SignOK / SignFail (Sign returns, the     *)
(* response).  The provisioner's answers are the environment's choice.     *)
(*                                                                         *)
(* Spec is the handler while the server listens, one request over the full *)
(* set of inputs.  SpecServer is the whole of main from the bootstrap      *)
(* token on (lines 247-321): startup, two requests in the handler at once  *)
(* over a small set of inputs, and the end of the process.                 *)
(***************************************************************************)
EXTENDS Integers, Sequences, FiniteSets, TLC

(***************************************************************************)
(* Bounds of the inputs.                                                   *)
(***************************************************************************)
MaxDNS == 3
MaxOther == 1

Reqs == {1}

\* The request slots of the whole-server specification: two requests may be
\* in the handler at once.
AllReqs == {1, 2}

RECURSIVE SeqsUpTo(_, _)
SeqsUpTo(S, n) ==
    IF n = 0 THEN {<<>>}
    ELSE LET shorter == SeqsUpTo(S, n - 1)
         IN  shorter \cup {Append(s, x) : s \in {t \in shorter : Len(t) = n - 1}, x \in S}

(***************************************************************************)
(* Values of the request.                                                  *)
(***************************************************************************)
Paths == {"/sign", "/healthz", "/", "/sign/"}
Methods == {"GET", "POST"}
Keys == {"k1", "k2"}
CommonNames == {"", "example.com"}
DNSUniverse == {"localhost", "127.0.0.1", "api.example.com"}
EmailUniverse == {"ops@example.com"}
IPUniverse == {<<127, 0, 0, 1>>, <<10, 0, 0, 7>>}
EmptyURL == [Scheme |-> "", Host |-> "", Path |-> ""]
URIUniverse == {EmptyURL, [Scheme |-> "spiffe", Host |-> "example.com", Path |-> "/signer"]}
Durations == {"", "1h"}

\* x509.CertificateRequest as the handler reads it: the identity fields, the
\* embedded public key, and the key the signature was made with.
CSRs ==
    [CommonName : CommonNames,
     DNSNames : SeqsUpTo(DNSUniverse, MaxDNS),
     EmailAddresses : SeqsUpTo(EmailUniverse, MaxOther),
     IPAddresses : SeqsUpTo(IPUniverse, MaxOther),
     URIs : SeqsUpTo(URIUniverse, MaxOther),
     PublicKey : {"k1"},
     SignedWith : Keys]

\* The body on the wire.  json: "malformed" is not JSON at all; "mistyped" is
\* JSON that json.Decoder cannot store in a SignRequest (not an object, a csr
\* that is no PEM CSR, a notAfter that is no duration); "ok" decodes.  csr is
\* the decoded pointer: <<>> when the csr field is missing, null or "".
Bodies ==
    [json : {"malformed", "mistyped"}, csr : {<<>>}, notAfter : {""}]
    \cup [json : {"ok"}, csr : {<<>>} \cup {<<c>> : c \in CSRs}, notAfter : Durations]

HTTPRequests == [path : Paths, method : Methods, body : Bodies]
\* The requests of the whole-server specification: both methods, /sign and
\* one other path, a body that does not parse, a body without csr, and CSRs
\* with or without a common name and a DNS name, validly signed or not.
SmallCSRs ==
    [CommonName : CommonNames,
     DNSNames : {<<>>, <<"api.example.com">>},
     EmailAddresses : {<<>>},
     IPAddresses : {<<>>},
     URIs : {<<>>},
     PublicKey : {"k1"},
     SignedWith : Keys]

SmallBodies ==
    [json : {"malformed"}, csr : {<<>>}, notAfter : {""}]
    \cup [json : {"ok"}, csr : {<<>>} \cup {<<c>> : c \in SmallCSRs}, notAfter : Durations]

SmallRequests == [path : {"/sign", "/healthz"}, method : Methods, body : SmallBodies]

NoRequest == [path |-> "", method |-> "", body |-> [json |-> "malformed", csr |-> <<>>, notAfter |-> ""]]

(***************************************************************************)
(* Errors and responses.                                                   *)
(***************************************************************************)
NoErr == [status |-> 0, msg |-> ""]
StatusBadRequest == 400
StatusNotFound == 404
StatusCreated == 201
StatusOK == 200

\* errs.BadRequest / errs.BadRequestErr: an error whose status is 400.
BadRequest(msg) == [status |-> StatusBadRequest, msg |-> msg]

\* The errors the provisioner can return from Token or Sign.
UpstreamErrs == {[status |-> 401, msg |-> "unauthorized"], [status |-> 500, msg |-> "ca unavailable"]}

NoResponse == [status |-> 0, ctype |-> "", kind |-> "none", msg |-> "", result |-> <<>>]

\* Variant of RenderError: the message as plain text, as http.Error writes it.
RenderErrorText(err) ==
    [status |-> err.status, ctype |-> "text/plain; charset=utf-8", kind |-> "text",
     msg |-> err.msg, result |-> <<>>]

\* Variant of RenderError: the status is never written, so the body goes out
\* with net/http's default 200.
RenderErrorNoStatus(err) ==
    [status |-> StatusOK, ctype |-> "application/json", kind |-> "error",
     msg |-> err.msg, result |-> <<>>]

\* render.Error: the error as a JSON object, with the error's status.
RenderError(err) ==
    [status |-> err.status, ctype |-> "application/json", kind |-> "error",
     msg |-> err.msg, result |-> <<>>]

\* http.NotFound: status 404 with the plain text of net/http.
NotFound ==
    [status |-> StatusNotFound, ctype |-> "text/plain; charset=utf-8", kind |-> "text",
     msg |-> "404 page not found", result |-> <<>>]

\* render.JSONStatus(w, r, resp, http.StatusCreated)
RenderJSONStatus(v, code) ==
    [status |-> code, ctype |-> "application/json", kind |-> "result",
     msg |-> "", result |-> <<v>>]

(***************************************************************************)
(* The pure steps of the handler.                                          *)
(***************************************************************************)
\* Variant of IsSignPath: a trailing slash is accepted too.
IsSignPathSlash(path) == path \in {"/sign", "/sign/"}

\* r.URL.Path != "/sign" is the handler's only routing test (line 261).
IsSignPath(path) == path = "/sign"

\* Variant of DecodeErr: the decode error is dropped.
DecodeErrIgnored(body) == NoErr

\* json.NewDecoder(r.Body).Decode(&request): the error, NoErr on success.
DecodeErr(body) ==
    IF body.json = "ok" THEN NoErr
    ELSE BadRequest("error reading request body")

\* x509.CertificateRequest.CheckSignature: the signature verifies against the
\* CSR's own embedded public key.
CheckSignature(c) == c.SignedWith = c.PublicKey

\* Variant of Validate: a missing csr is reported as an internal error.
ValidateMissingAsInternal(body) ==
    IF body.csr = <<>> THEN [status |-> 500, msg |-> "missing csr"]
    ELSE IF ~CheckSignature(body.csr[1]) THEN BadRequest("invalid csr")
    ELSE NoErr

\* Variant of Validate: the CSR's signature is not checked.
ValidateNoSignatureCheck(body) ==
    IF body.csr = <<>> THEN BadRequest("missing csr")
    ELSE NoErr

\* SignRequest.Validate: the error, NoErr when the request is valid.
Validate(body) ==
    IF body.csr = <<>> THEN BadRequest("missing csr")
    ELSE IF ~CheckSignature(body.csr[1]) THEN BadRequest("invalid csr")
    ELSE NoErr

\* net.IP.String of a four-byte address: dotted decimal.
IPString(ip) ==
    ToString(ip[1]) \o "." \o ToString(ip[2]) \o "." \o ToString(ip[3]) \o "." \o ToString(ip[4])

\* url.URL.String: scheme ":" then "//" host when there is a scheme or a host
\* and a host or a path, then the path.
URLString(u) ==
    (IF u.Scheme # "" THEN u.Scheme \o ":" ELSE "")
    \o (IF (u.Scheme # "" \/ u.Host # "") /\ (u.Host # "" \/ u.Path # "")
        THEN "//" \o u.Host ELSE "")
    \o u.Path

\* The range loops of lines 281-286: one string appended per entry, in order.
IPStrings(ips) == [i \in 1..Len(ips) |-> IPString(ips[i])]
URLStrings(us) == [i \in 1..Len(us) |-> URLString(us[i])]

\* Variant of BuildSans: the IP addresses are appended before the email
\* addresses.
BuildSansIPsFirst(c) ==
    c.DNSNames \o IPStrings(c.IPAddresses) \o c.EmailAddresses \o URLStrings(c.URIs)

\* Lines 279-286: DNS names, then email addresses, then the IP addresses as
\* strings, then the URIs as strings.
BuildSans(c) ==
    c.DNSNames \o c.EmailAddresses \o IPStrings(c.IPAddresses) \o URLStrings(c.URIs)

\* Variant of ScanSans: only "localhost" is skipped.
RECURSIVE ScanSansLocalhostOnly(_, _)
ScanSansLocalhostOnly(sans, i) ==
    IF i > Len(sans) THEN [found |-> FALSE, value |-> ""]
    ELSE IF sans[i] # "localhost" THEN [found |-> TRUE, value |-> sans[i]]
    ELSE ScanSansLocalhostOnly(sans, i + 1)

\* generateSubject's loop (lines 354-358) from index i on: found with the
\* entry it returns, or not found when the loop runs off the end.
RECURSIVE ScanSans(_, _)
ScanSans(sans, i) ==
    IF i > Len(sans) THEN [found |-> FALSE, value |-> ""]
    ELSE IF sans[i] # "127.0.0.1" /\ sans[i] # "localhost" THEN [found |-> TRUE, value |-> sans[i]]
    ELSE ScanSans(sans, i + 1)

generateSubject(sans) ==
    IF Len(sans) = 0 THEN "127.0.0.1"
    ELSE LET scan == ScanSans(sans, 1)
         IN  IF scan.found THEN scan.value ELSE sans[1]

\* Variant of SelectSubject: the SANs win over the common name when there are any.
SelectSubjectSansFirst(c, sans) ==
    IF c.CommonName = "" \/ Len(sans) > 0 THEN generateSubject(sans) ELSE c.CommonName

\* Lines 288-291: the common name, or generateSubject(sans) when it is empty.
SelectSubject(c, sans) ==
    IF c.CommonName = "" THEN generateSubject(sans) ELSE c.CommonName

(***************************************************************************)
(* State.                                                                  *)
(***************************************************************************)
VARIABLES
    pc,         \* per request: "idle", "token" (blocked in provisioner.Token),
                \* "sign" (blocked in provisioner.Sign), "done" (response written)
    request,    \* per request: the HTTP request being handled
    steps,      \* per request: the handler stages run so far, in order
    subject,    \* per request: the handler's local subject
    sans,       \* per request: the handler's local sans
    token,      \* per request: the handler's local token, <<>> before Token returns
    response,   \* per request: the response written
    returned,   \* per request: what the provisioner returned to it, in order
                \* (NoErr for a success, the error otherwise)
    calls,      \* the provisioner's view: every Token and Sign call, in order
    main,       \* position of main: "token" (in the bootstrap provisioner.Token),
                \* "bootstrap" (in ca.BootstrapServer), "listen" (in
                \* srv.ListenAndServeTLS), "exited" (os.Exit or panic)
    started,    \* what the two startup calls returned, in order
    identity,   \* the server certificate installed by ca.BootstrapServer, <<>> if none
    cancelled   \* whether cancel() of line 254 has been called

reqVars == <<pc, request, steps, subject, sans, token, response, returned, calls>>
mainVars == <<main, started, identity, cancelled>>
vars == <<pc, request, steps, subject, sans, token, response, returned, calls,
          main, started, identity, cancelled>>

\* A call as the provisioner sees it (req names the calling request).
TokenCall(r, sub, sns) ==
    [op |-> "Token", req |-> r, subject |-> sub, sans |-> sns,
     csr |-> <<>>, ott |-> <<>>, notAfter |-> ""]

\* api.SignRequest{CsrPEM, OTT, NotAfter} of lines 299-303.
SignCall(r, body, tok) ==
    [op |-> "Sign", req |-> r, subject |-> "", sans |-> <<>>,
     csr |-> body.csr, ott |-> <<tok>>, notAfter |-> body.notAfter]

\* The token the provisioner mints for a Token call: opaque, one per call,
\* scoped to the subject and SANs of the call.
MintToken(call, n) == [id |-> n, subject |-> call.subject, sans |-> call.sans]

\* The api.SignResponse of a successful Sign call: the certificate for the
\* CSR with the validity asked for.
SignResponse(call) == [crt |-> call.csr[1], notAfter |-> call.notAfter]

\* The index in calls of the last call the request made on the provisioner.
LastIndexOf(r) ==
    LET idx == {i \in 1..Len(calls) : calls[i].req = r}
    IN  CHOOSE i \in idx : \A j \in idx : j <= i

\* The last call the request made on the provisioner.
LastCallOf(r) == calls[LastIndexOf(r)]

\* config.GetServiceName() with no service configured (line 183).
ServiceName == "ca-signer.step.svc.cluster.local"

\* The certificate ca.BootstrapServer obtains with the bootstrap token of
\* line 247: subject and SANs of that token.
ServerCert == [subject |-> ServiceName, sans |-> <<ServiceName, "127.0.0.1">>]

NoRequests ==
    /\ pc = [r \in AllReqs |-> "idle"]
    /\ request = [r \in AllReqs |-> NoRequest]
    /\ steps = [r \in AllReqs |-> <<>>]
    /\ subject = [r \in AllReqs |-> ""]
    /\ sans = [r \in AllReqs |-> <<>>]
    /\ token = [r \in AllReqs |-> <<>>]
    /\ response = [r \in AllReqs |-> NoResponse]
    /\ returned = [r \in AllReqs |-> <<>>]
    /\ calls = <<>>

\* The handler's specification starts with the server listening: both
\* startup calls have succeeded and the certificate is installed.
Init ==
    /\ NoRequests
    /\ main = "listen"
    /\ started = <<NoErr, NoErr>>
    /\ identity = <<ServerCert>>
    /\ cancelled = FALSE

\* The whole server's specification starts where main has loaded its
\* provisioner and is about to mint the bootstrap token (line 247).
InitMain ==
    /\ NoRequests
    /\ main = "token"
    /\ started = <<>>
    /\ identity = <<>>
    /\ cancelled = FALSE

(***************************************************************************)
(* The handler, lines 260-311.                                             *)
(***************************************************************************)
\* Variant of HandleRequest: only POST is routed to the signing pipeline.
HandleRequestPostOnly(r, Inputs) ==
    /\ main = "listen"
    /\ pc[r] = "idle"
    /\ \E rq \in Inputs :
        /\ request' = [request EXCEPT ![r] = rq]
        /\ IF ~IsSignPath(rq.path) \/ rq.method # "POST"
           THEN /\ steps' = [steps EXCEPT ![r] = <<"route">>]
                /\ response' = [response EXCEPT ![r] = NotFound]
                /\ pc' = [pc EXCEPT ![r] = "done"]
                /\ UNCHANGED <<subject, sans, calls>>
           ELSE IF DecodeErr(rq.body) # NoErr
           THEN /\ steps' = [steps EXCEPT ![r] = <<"route", "decode">>]
                /\ response' = [response EXCEPT ![r] = RenderError(DecodeErr(rq.body))]
                /\ pc' = [pc EXCEPT ![r] = "done"]
                /\ UNCHANGED <<subject, sans, calls>>
           ELSE IF Validate(rq.body) # NoErr
           THEN /\ steps' = [steps EXCEPT ![r] = <<"route", "decode", "validate">>]
                /\ response' = [response EXCEPT ![r] = RenderError(Validate(rq.body))]
                /\ pc' = [pc EXCEPT ![r] = "done"]
                /\ UNCHANGED <<subject, sans, calls>>
           ELSE LET csr == rq.body.csr[1]
                    sns == BuildSans(csr)
                    sub == SelectSubject(csr, sns)
                IN  /\ steps' = [steps EXCEPT ![r] = <<"route", "decode", "validate", "derive">>]
                    /\ sans' = [sans EXCEPT ![r] = sns]
                    /\ subject' = [subject EXCEPT ![r] = sub]
                    /\ calls' = Append(calls, TokenCall(r, sub, sns))
                    /\ pc' = [pc EXCEPT ![r] = "token"]
                    /\ UNCHANGED response
    /\ UNCHANGED <<token, returned>>
    /\ UNCHANGED mainVars

\* Lines 261-293: a request arrives and the handler runs up to its first
\* return or up to the call of provisioner.Token.
HandleRequest(r, Inputs) ==
    /\ main = "listen"
    /\ pc[r] = "idle"
    /\ \E rq \in Inputs :
        /\ request' = [request EXCEPT ![r] = rq]
        /\ IF ~IsSignPath(rq.path)
           THEN /\ steps' = [steps EXCEPT ![r] = <<"route">>]
                /\ response' = [response EXCEPT ![r] = NotFound]
                /\ pc' = [pc EXCEPT ![r] = "done"]
                /\ UNCHANGED <<subject, sans, calls>>
           ELSE IF DecodeErr(rq.body) # NoErr
           THEN /\ steps' = [steps EXCEPT ![r] = <<"route", "decode">>]
                /\ response' = [response EXCEPT ![r] = RenderError(DecodeErr(rq.body))]
                /\ pc' = [pc EXCEPT ![r] = "done"]
                /\ UNCHANGED <<subject, sans, calls>>
           ELSE IF Validate(rq.body) # NoErr
           THEN /\ steps' = [steps EXCEPT ![r] = <<"route", "decode", "validate">>]
                /\ response' = [response EXCEPT ![r] = RenderError(Validate(rq.body))]
                /\ pc' = [pc EXCEPT ![r] = "done"]
                /\ UNCHANGED <<subject, sans, calls>>
           ELSE LET csr == rq.body.csr[1]
                    sns == BuildSans(csr)
                    sub == SelectSubject(csr, sns)
                IN  /\ steps' = [steps EXCEPT ![r] = <<"route", "decode", "validate", "derive">>]
                    /\ sans' = [sans EXCEPT ![r] = sns]
                    /\ subject' = [subject EXCEPT ![r] = sub]
                    /\ calls' = Append(calls, TokenCall(r, sub, sns))
                    /\ pc' = [pc EXCEPT ![r] = "token"]
                    /\ UNCHANGED response
    /\ UNCHANGED <<token, returned>>
    /\ UNCHANGED mainVars

\* The handler on the full set of requests, and on the small set the
\* whole-server specification draws from.
Handle(r) == HandleRequest(r, HTTPRequests)
HandleSmall(r) == HandleRequest(r, SmallRequests)

\* The index in calls of the first Token call, and of the latest one.
FirstTokenIndex ==
    LET idx == {i \in 1..Len(calls) : calls[i].op = "Token"}
    IN  CHOOSE i \in idx : \A j \in idx : i <= j

LatestTokenIndex ==
    LET idx == {i \in 1..Len(calls) : calls[i].op = "Token"}
    IN  CHOOSE i \in idx : \A j \in idx : j <= i

\* Variant of TokenOK: the first token minted is cached in a package-level
\* variable and used for every later Sign call.
TokenOKCachedToken(r) ==
    /\ main = "listen"
    /\ pc[r] = "token"
    /\ LET tok == MintToken(calls[FirstTokenIndex], FirstTokenIndex)
       IN  /\ token' = [token EXCEPT ![r] = <<tok>>]
           /\ calls' = Append(calls, SignCall(r, request[r].body, tok))
    /\ pc' = [pc EXCEPT ![r] = "sign"]
    /\ returned' = [returned EXCEPT ![r] = Append(@, NoErr)]
    /\ UNCHANGED <<request, steps, subject, sans, response>>
    /\ UNCHANGED mainVars

\* Variant of TokenOK: the decoded request is a package-level variable, so
\* Sign gets the CSR and notAfter of the request decoded last.
TokenOKSharedRequest(r) ==
    /\ main = "listen"
    /\ pc[r] = "token"
    /\ LET tok == MintToken(LastCallOf(r), LastIndexOf(r))
       IN  /\ token' = [token EXCEPT ![r] = <<tok>>]
           /\ calls' = Append(calls, SignCall(r, request[calls[LatestTokenIndex].req].body, tok))
    /\ pc' = [pc EXCEPT ![r] = "sign"]
    /\ returned' = [returned EXCEPT ![r] = Append(@, NoErr)]
    /\ UNCHANGED <<request, steps, subject, sans, response>>
    /\ UNCHANGED mainVars

\* Lines 293-303: Token returns a token; the handler calls provisioner.Sign
\* with the request's CSR, the token and the request's notAfter.
TokenOK(r) ==
    /\ main = "listen"
    /\ pc[r] = "token"
    /\ LET tok == MintToken(LastCallOf(r), LastIndexOf(r))
       IN  /\ token' = [token EXCEPT ![r] = <<tok>>]
           /\ calls' = Append(calls, SignCall(r, request[r].body, tok))
    /\ pc' = [pc EXCEPT ![r] = "sign"]
    /\ returned' = [returned EXCEPT ![r] = Append(@, NoErr)]
    /\ UNCHANGED <<request, steps, subject, sans, response>>
    /\ UNCHANGED mainVars

\* Variant of TokenFail: on a Token error the handler asks for a token again.
TokenFailRetry(r, err) ==
    /\ main = "listen"
    /\ pc[r] = "token"
    /\ calls' = Append(calls, TokenCall(r, subject[r], sans[r]))
    /\ returned' = [returned EXCEPT ![r] = Append(@, err)]
    /\ UNCHANGED <<pc, request, steps, subject, sans, token, response>>
    /\ UNCHANGED mainVars

\* Lines 293-297: Token returns an error; the handler renders it and returns.
TokenFail(r, err) ==
    /\ main = "listen"
    /\ pc[r] = "token"
    /\ response' = [response EXCEPT ![r] = RenderError(err)]
    /\ pc' = [pc EXCEPT ![r] = "done"]
    /\ returned' = [returned EXCEPT ![r] = Append(@, err)]
    /\ UNCHANGED <<request, steps, subject, sans, token, calls>>
    /\ UNCHANGED mainVars

\* Variant of SignOK: the response is rendered with 200.
SignOKStatusOK(r) ==
    /\ main = "listen"
    /\ pc[r] = "sign"
    /\ response' = [response EXCEPT ![r] = RenderJSONStatus(SignResponse(LastCallOf(r)), StatusOK)]
    /\ pc' = [pc EXCEPT ![r] = "done"]
    /\ returned' = [returned EXCEPT ![r] = Append(@, NoErr)]
    /\ UNCHANGED <<request, steps, subject, sans, token, calls>>
    /\ UNCHANGED mainVars

\* Lines 305-310: Sign returns a response; the handler renders it with 201.
SignOK(r) ==
    /\ main = "listen"
    /\ pc[r] = "sign"
    /\ response' = [response EXCEPT ![r] = RenderJSONStatus(SignResponse(LastCallOf(r)), StatusCreated)]
    /\ pc' = [pc EXCEPT ![r] = "done"]
    /\ returned' = [returned EXCEPT ![r] = Append(@, NoErr)]
    /\ UNCHANGED <<request, steps, subject, sans, token, calls>>
    /\ UNCHANGED mainVars

\* Variant of SignFail: on a Sign error the handler mints a fresh token and
\* tries again.
SignFailRetry(r, err) ==
    /\ main = "listen"
    /\ pc[r] = "sign"
    /\ calls' = Append(calls, TokenCall(r, subject[r], sans[r]))
    /\ pc' = [pc EXCEPT ![r] = "token"]
    /\ returned' = [returned EXCEPT ![r] = Append(@, err)]
    /\ UNCHANGED <<request, steps, subject, sans, token, response>>
    /\ UNCHANGED mainVars

\* Lines 305-308: Sign returns an error; the handler renders it and returns.
SignFail(r, err) ==
    /\ main = "listen"
    /\ pc[r] = "sign"
    /\ response' = [response EXCEPT ![r] = RenderError(err)]
    /\ pc' = [pc EXCEPT ![r] = "done"]
    /\ returned' = [returned EXCEPT ![r] = Append(@, err)]
    /\ UNCHANGED <<request, steps, subject, sans, token, calls>>
    /\ UNCHANGED mainVars

(***************************************************************************)
(* main, lines 247-321.                                                    *)
(***************************************************************************)
\* Lines 247-257: the bootstrap token is minted; main creates the context
\* and calls ca.BootstrapServer with the token.
BootTokenOK ==
    /\ main = "token"
    /\ main' = "bootstrap"
    /\ started' = Append(started, NoErr)
    /\ UNCHANGED <<identity, cancelled>>
    /\ UNCHANGED reqVars

\* Lines 248-251: minting the bootstrap token fails; os.Exit(1).
BootTokenFail(err) ==
    /\ main = "token"
    /\ main' = "exited"
    /\ started' = Append(started, err)
    /\ UNCHANGED <<identity, cancelled>>
    /\ UNCHANGED reqVars

\* Lines 257, 314-319: ca.BootstrapServer returns the server with its
\* certificate; main calls srv.ListenAndServeTLS.
BootstrapOK ==
    /\ main = "bootstrap"
    /\ main' = "listen"
    /\ started' = Append(started, NoErr)
    /\ identity' = <<ServerCert>>
    /\ UNCHANGED cancelled
    /\ UNCHANGED reqVars

\* Variant of BootstrapFail: the error is dropped and main goes on to listen.
BootstrapFailIgnored(err) ==
    /\ main = "bootstrap"
    /\ main' = "listen"
    /\ started' = Append(started, err)
    /\ UNCHANGED <<identity, cancelled>>
    /\ UNCHANGED reqVars

\* Lines 314-316: ca.BootstrapServer returns an error; main panics, and the
\* deferred cancel of line 255 runs as the process dies.
BootstrapFail(err) ==
    /\ main = "bootstrap"
    /\ main' = "exited"
    /\ started' = Append(started, err)
    /\ cancelled' = TRUE
    /\ UNCHANGED identity
    /\ UNCHANGED reqVars

\* Variant of ListenFail: cancel is called and the server keeps serving.
ListenFailKeepsServing ==
    /\ main = "listen"
    /\ cancelled = FALSE
    /\ cancelled' = TRUE
    /\ UNCHANGED <<main, started, identity>>
    /\ UNCHANGED reqVars

\* Lines 319-321: srv.ListenAndServeTLS returns an error; main panics, the
\* deferred cancel of line 255 runs, and the process dies with every handler
\* goroutine still in it.
ListenFail ==
    /\ main = "listen"
    /\ main' = "exited"
    /\ cancelled' = TRUE
    /\ UNCHANGED <<started, identity>>
    /\ UNCHANGED reqVars

(***************************************************************************)
(* Specifications.                                                         *)
(***************************************************************************)
\* The handler while the server listens, one request over the full inputs.
Next ==
    \E r \in Reqs :
        \/ Handle(r)
        \/ TokenOK(r)
        \/ \E err \in UpstreamErrs : TokenFail(r, err)
        \/ SignOK(r)
        \/ \E err \in UpstreamErrs : SignFail(r, err)

Spec == Init /\ [][Next]_vars

\* The whole server: startup, two requests in the handler at once over the
\* small inputs, and the end of the process.
NextServer ==
    \/ BootTokenOK
    \/ \E err \in UpstreamErrs : BootTokenFail(err)
    \/ BootstrapOK
    \/ \E err \in UpstreamErrs : BootstrapFail(err)
    \/ ListenFail
    \/ \E r \in AllReqs :
        \/ HandleSmall(r)
        \/ TokenOK(r)
        \/ \E err \in UpstreamErrs : TokenFail(r, err)
        \/ SignOK(r)
        \/ \E err \in UpstreamErrs : SignFail(r, err)

SpecServer == InitMain /\ [][NextServer]_vars

(***************************************************************************)
(* Properties.                                                             *)
(***************************************************************************)
CallsOf(r) == SelectSeq(calls, LAMBDA c : c.req = r)
OpsOf(r) == [i \in 1..Len(CallsOf(r)) |-> CallsOf(r)[i].op]
TokenCalls == {i \in 1..Len(calls) : calls[i].op = "Token"}
CsrOfCall(i) == request[calls[i].req].body.csr[1]

\* The request is to /sign, its body decodes, and it carries a CSR whose
\* signature was made with the key the CSR embeds.
ValidSignRequest(rq) ==
    /\ rq.path = "/sign"
    /\ rq.body.json = "ok"
    /\ rq.body.csr # <<>>
    /\ rq.body.csr[1].SignedWith = rq.body.csr[1].PublicKey

AllSucceeded(r) == \A i \in 1..Len(returned[r]) : returned[r][i] = NoErr

\* C1: a request to /sign with a validly self-signed CSR, for which every
\* provisioner call succeeds, ends with status 201 and the sign result as its
\* body, after exactly one Token call followed by exactly one Sign call and
\* no other provisioner call; at no point of such a request has the
\* provisioner seen anything but a prefix of <<Token, Sign>>.
C1_SuccessIs201AfterTokenThenSign ==
    \A r \in Reqs :
        (pc[r] # "idle" /\ ValidSignRequest(request[r]) /\ AllSucceeded(r)) =>
            /\ OpsOf(r) \in {<<"Token">>, <<"Token", "Sign">>}
            /\ pc[r] = "done" =>
                /\ OpsOf(r) = <<"Token", "Sign">>
                /\ returned[r] = <<NoErr, NoErr>>
                /\ response[r].status = 201
                /\ response[r].ctype = "application/json"
                /\ response[r].result =
                       <<[crt |-> request[r].body.csr[1],
                          notAfter |-> request[r].body.notAfter]>>

C1_Witness ==
    \E r \in Reqs :
        /\ pc[r] = "done"
        /\ ValidSignRequest(request[r])
        /\ returned[r] = <<NoErr, NoErr>>
        /\ response[r].status = 201

\* C2: a body that is JSON but carries no csr is answered with a BadRequest
\* error (status 400), and the provisioner sees no call from the request.
C2_MissingCsrIsBadRequest ==
    \A r \in Reqs :
        (pc[r] # "idle" /\ request[r].path = "/sign"
            /\ request[r].body.json # "malformed" /\ request[r].body.csr = <<>>) =>
            /\ pc[r] = "done"
            /\ response[r].status = 400
            /\ response[r].kind = "error"
            /\ CallsOf(r) = <<>>

C2_Witness ==
    \E r \in Reqs :
        /\ pc[r] = "done"
        /\ request[r].path = "/sign"
        /\ request[r].body.json = "ok"
        /\ request[r].body.csr = <<>>
        /\ response[r].status = 400

\* C3: a CSR whose signature was not made with the key it embeds is answered
\* with a BadRequest error (status 400), and the provisioner sees no call.
C3_BadSignatureIsBadRequest ==
    \A r \in Reqs :
        (pc[r] # "idle" /\ request[r].path = "/sign" /\ request[r].body.json = "ok"
            /\ request[r].body.csr # <<>>
            /\ request[r].body.csr[1].SignedWith # request[r].body.csr[1].PublicKey) =>
            /\ pc[r] = "done"
            /\ response[r].status = 400
            /\ response[r].kind = "error"
            /\ CallsOf(r) = <<>>

C3_Witness ==
    \E r \in Reqs :
        /\ pc[r] = "done"
        /\ request[r].path = "/sign"
        /\ request[r].body.csr # <<>>
        /\ request[r].body.csr[1].SignedWith # request[r].body.csr[1].PublicKey
        /\ response[r].status = 400

\* C4: once Token has succeeded and the Sign call after it has failed, the
\* request is over: the response is the Sign error rendered (never 201), and
\* the provisioner has seen exactly one Token and one Sign call from it.
C4_SignFailureSurfacedOnce ==
    \A r \in Reqs :
        (Len(returned[r]) >= 2 /\ returned[r][1] = NoErr /\ returned[r][2] # NoErr) =>
            /\ pc[r] = "done"
            /\ Len(returned[r]) = 2
            /\ OpsOf(r) = <<"Token", "Sign">>
            /\ response[r].status = returned[r][2].status
            /\ response[r].msg = returned[r][2].msg
            /\ response[r].kind = "error"
            /\ response[r].status # 201

C4_Witness ==
    \E r \in Reqs :
        /\ pc[r] = "done"
        /\ Len(returned[r]) = 2
        /\ returned[r][1] = NoErr
        /\ returned[r][2] \in UpstreamErrs
        /\ response[r].status = returned[r][2].status

\* C5 (as claimed): GET /healthz is answered with status 200 and body "ok",
\* without any provisioner call.
C5_HealthzIs200 ==
    \A r \in Reqs :
        (pc[r] = "done" /\ request[r].path = "/healthz" /\ request[r].method = "GET") =>
            /\ response[r].status = 200
            /\ response[r].msg = "ok"
            /\ CallsOf(r) = <<>>

\* C6: a request whose path is neither /sign nor /healthz is answered with
\* 404 right after the path test: the body is not decoded and the
\* provisioner sees no call.
C6_OtherPathIs404 ==
    \A r \in Reqs :
        (pc[r] # "idle" /\ request[r].path \notin {"/sign", "/healthz"}) =>
            /\ pc[r] = "done"
            /\ response[r].status = 404
            /\ steps[r] = <<"route">>
            /\ CallsOf(r) = <<>>

C6_Witness ==
    \E r \in Reqs :
        /\ pc[r] = "done"
        /\ request[r].path = "/sign/"
        /\ request[r].body.json = "ok"
        /\ response[r].status = 404

IsSuccessStatus(st) == st >= 200 /\ st <= 299
IsJSONError(resp) == resp.ctype = "application/json" /\ resp.kind = "error"

\* C7 (as claimed): every response whose status is not 2xx carries a JSON
\* error body.
C7_EveryFailureIsJSON ==
    \A r \in Reqs :
        (pc[r] = "done" /\ ~IsSuccessStatus(response[r].status)) => IsJSONError(response[r])

\* C7 (amended): every non-2xx response to a request for /sign (parse
\* failure, validation failure, Token or Sign error) carries a JSON error
\* body; the 404 for any other path carries the plain text of http.NotFound.
C7_FailureOnSignPathIsJSON ==
    \A r \in Reqs :
        pc[r] = "done" =>
            /\ (request[r].path = "/sign" /\ ~IsSuccessStatus(response[r].status)) =>
                   IsJSONError(response[r])
            /\ request[r].path # "/sign" =>
                   /\ response[r].status = 404
                   /\ response[r].kind = "text"
                   /\ response[r].ctype # "application/json"

C7_Witness ==
    \E r \in Reqs :
        /\ pc[r] = "done"
        /\ request[r].path = "/sign"
        /\ Len(returned[r]) = 1
        /\ returned[r][1] \in UpstreamErrs
        /\ IsJSONError(response[r])

\* The subject rule as stated: the loopback address for no SANs, else the
\* first entry that is neither the loopback address nor localhost, else the
\* first entry.
StatedSubject(sns) ==
    IF sns = <<>> THEN "127.0.0.1"
    ELSE LET Q == {i \in 1..Len(sns) : sns[i] \notin {"127.0.0.1", "localhost"}}
         IN  IF Q # {} THEN sns[CHOOSE i \in Q : \A j \in Q : i <= j] ELSE sns[1]

\* C8: when the CSR's common name is empty, the subject of the Token call is
\* the stated function of the call's SAN sequence; in particular
\* <<localhost, 127.0.0.1, api.example.com>> gives api.example.com,
\* <<localhost>> gives localhost and <<>> gives 127.0.0.1.
C8_SubjectFromSans ==
    \A i \in TokenCalls :
        CsrOfCall(i).CommonName = "" =>
            /\ calls[i].subject = StatedSubject(calls[i].sans)
            /\ calls[i].sans = <<"localhost", "127.0.0.1", "api.example.com">> =>
                   calls[i].subject = "api.example.com"
            /\ calls[i].sans = <<"localhost">> => calls[i].subject = "localhost"
            /\ calls[i].sans = <<>> => calls[i].subject = "127.0.0.1"

C8_Witness ==
    \E i \in TokenCalls :
        /\ CsrOfCall(i).CommonName = ""
        /\ calls[i].sans = <<"localhost", "127.0.0.1", "api.example.com">>
        /\ calls[i].subject = "api.example.com"

\* C9: when the CSR's common name is not empty, the subject of the Token call
\* is that common name whatever the SANs are, and the SANs of the call are
\* those computed for the same CSR with an empty common name.
C9_CommonNameIsSubject ==
    \A i \in TokenCalls :
        CsrOfCall(i).CommonName # "" =>
            /\ calls[i].subject = CsrOfCall(i).CommonName
            /\ calls[i].sans = BuildSans([CsrOfCall(i) EXCEPT !.CommonName = ""])

C9_Witness ==
    \E i \in TokenCalls :
        /\ CsrOfCall(i).CommonName = "example.com"
        /\ Len(calls[i].sans) >= 2
        /\ calls[i].sans[1] = "api.example.com"
        /\ calls[i].subject = "example.com"

\* C10 (as claimed): the subject of every Token call is a non-empty string.
C10_SubjectNeverEmpty ==
    \A i \in TokenCalls : calls[i].subject # ""

\* C15: once the Token call of a request has failed, the request is over:
\* the response is the Token error rendered, and the provisioner has seen
\* exactly one Token call and no Sign call from it.
C15_TokenFailureSurfacedOnce ==
    \A r \in Reqs :
        (Len(returned[r]) >= 1 /\ returned[r][1] # NoErr) =>
            /\ pc[r] = "done"
            /\ Len(returned[r]) = 1
            /\ OpsOf(r) = <<"Token">>
            /\ response[r].status = returned[r][1].status
            /\ response[r].msg = returned[r][1].msg
            /\ response[r].kind = "error"

C15_Witness ==
    \E r \in Reqs :
        /\ pc[r] = "done"
        /\ ValidSignRequest(request[r])
        /\ returned[r] = <<[status |-> 401, msg |-> "unauthorized"]>>
        /\ response[r].status = 401

\* C16: a request to /sign whose body does not decode into a signing request
\* is answered with a BadRequest error (status 400) right after the decode:
\* Validate is not run and the provisioner sees no call.
C16_UndecodableBodyIsBadRequest ==
    \A r \in Reqs :
        (pc[r] # "idle" /\ request[r].path = "/sign" /\ request[r].body.json # "ok") =>
            /\ pc[r] = "done"
            /\ response[r].status = 400
            /\ response[r].kind = "error"
            /\ response[r].msg = "error reading request body"
            /\ steps[r] = <<"route", "decode">>
            /\ CallsOf(r) = <<>>

C16_Witness ==
    \E r \in Reqs :
        /\ pc[r] = "done"
        /\ request[r].path = "/sign"
        /\ request[r].body.json = "malformed"
        /\ response[r].status = 400

\* The string forms of the addresses and URIs of the model, written out.
StatedIPString(ip) ==
    CASE ip = <<127, 0, 0, 1>> -> "127.0.0.1"
      [] ip = <<10, 0, 0, 7>> -> "10.0.0.7"

StatedURIString(u) ==
    CASE u = EmptyURL -> ""
      [] u = [Scheme |-> "spiffe", Host |-> "example.com", Path |-> "/signer"] ->
             "spiffe://example.com/signer"

\* C17: the SANs of a Token call are the CSR's DNS names, then its email
\* addresses, then its IP addresses as strings, then its URIs as strings,
\* entry for entry: each group in the CSR's order, nothing dropped, nothing
\* reordered, duplicates kept.
C17_SansInOrder ==
    \A i \in TokenCalls :
        LET c == CsrOfCall(i)
            s == calls[i].sans
            nd == Len(c.DNSNames)
            ne == Len(c.EmailAddresses)
            ni == Len(c.IPAddresses)
            nu == Len(c.URIs)
        IN  /\ Len(s) = nd + ne + ni + nu
            /\ \A k \in 1..nd : s[k] = c.DNSNames[k]
            /\ \A k \in 1..ne : s[nd + k] = c.EmailAddresses[k]
            /\ \A k \in 1..ni : s[nd + ne + k] = StatedIPString(c.IPAddresses[k])
            /\ \A k \in 1..nu : s[nd + ne + ni + k] = StatedURIString(c.URIs[k])

\* A call whose SANs repeat an entry within the DNS group and across the DNS
\* and IP groups.
C17_Witness ==
    \E i \in TokenCalls :
        calls[i].sans = <<"127.0.0.1", "localhost", "localhost", "ops@example.com",
                          "127.0.0.1", "spiffe://example.com/signer">>

\* C18: a response has a 2xx status only if the status is 201 and the request
\* has run every stage with success: it was routed, decoded, validated, its
\* Token call and then its Sign call succeeded, and it is finished.
C18_OnlySuccessIs201 ==
    \A r \in Reqs :
        IsSuccessStatus(response[r].status) =>
            /\ response[r].status = 201
            /\ pc[r] = "done"
            /\ ValidSignRequest(request[r])
            /\ steps[r] = <<"route", "decode", "validate", "derive">>
            /\ OpsOf(r) = <<"Token", "Sign">>
            /\ returned[r] = <<NoErr, NoErr>>

C18_Witness ==
    \E r \in Reqs :
        /\ response[r].status = 201
        /\ returned[r] = <<NoErr, NoErr>>
        /\ request[r].method = "GET"

InFlight(r) == pc[r] \in {"token", "sign"}

\* C13: the server listens, and a request is handled, only after the
\* bootstrap token was minted and the enrollment succeeded, with the server
\* certificate installed; when either startup call has failed the process
\* has exited, no certificate is installed and no request was ever handled.
C13_NoServingWithoutIdentity ==
    /\ (main = "listen" \/ \E r \in AllReqs : pc[r] # "idle") =>
           /\ started = <<NoErr, NoErr>>
           /\ identity = <<ServerCert>>
    /\ (\E k \in 1..Len(started) : started[k] # NoErr) =>
           /\ main = "exited"
           /\ identity = <<>>
           /\ \A r \in AllReqs : pc[r] = "idle"
           /\ calls = <<>>

C13_Witness ==
    /\ Len(started) = 2
    /\ started[1] = NoErr
    /\ started[2] \in UpstreamErrs
    /\ main = "exited"

\* C14 (as claimed): after the cancellation signal the server shuts down
\* gracefully, so a request that is in flight can still take its next step
\* and finish.
C14_InFlightFinishAfterCancel ==
    \A r \in AllReqs :
        (cancelled /\ InFlight(r)) =>
            ENABLED (\/ TokenOK(r)
                     \/ \E err \in UpstreamErrs : TokenFail(r, err)
                     \/ SignOK(r)
                     \/ \E err \in UpstreamErrs : SignFail(r, err))

\* C14 (amended): cancel is called only as main panics; from then on the
\* process has exited and nothing changes any more: no request is accepted,
\* no handler takes a step, and a request that was in flight stays unanswered.
C14_CancelOnlyAsProcessDies ==
    [][/\ cancelled' => main' = "exited"
       /\ cancelled => UNCHANGED vars]_vars

\* cancel was called while the server was serving, with a request in flight.
C14_Witness ==
    /\ cancelled
    /\ main = "exited"
    /\ identity = <<ServerCert>>
    /\ \E r \in AllReqs : pc[r] = "sign" /\ response[r] = NoResponse

SignCallsWith(tok) == {j \in 1..Len(calls) : calls[j].op = "Sign" /\ calls[j].ott = <<tok>>}

\* C11: with two requests in the handler in any interleaving, the token of
\* every successful Token call is passed to exactly one Sign call, made by
\* the same request with the CSR the token's subject and SANs come from; a
\* Sign call never carries a token that was not minted for its own request,
\* and no other request holds the token.
C11_TokenUsedOnceByItsRequest ==
    /\ \A i \in TokenCalls :
           LET r == calls[i].req
               tok == MintToken(calls[i], i)
           IN  /\ (returned[r] # <<>> /\ returned[r][1] = NoErr) =>
                      /\ Cardinality(SignCallsWith(tok)) = 1
                      /\ \A j \in SignCallsWith(tok) :
                             /\ j > i
                             /\ calls[j].req = r
                             /\ calls[j].csr = request[r].body.csr
                             /\ tok.sans = BuildSans(calls[j].csr[1])
                             /\ tok.subject = SelectSubject(calls[j].csr[1], tok.sans)
                      /\ token[r] = <<tok>>
               /\ (returned[r] = <<>> \/ returned[r][1] # NoErr) =>
                      /\ SignCallsWith(tok) = {}
                      /\ token[r] = <<>>
               /\ \A q \in AllReqs \ {r} : token[q] # <<tok>>
    /\ \A j \in 1..Len(calls) :
           calls[j].op = "Sign" =>
               \E i \in TokenCalls :
                   /\ i < j
                   /\ calls[i].req = calls[j].req
                   /\ calls[j].ott = <<MintToken(calls[i], i)>>

\* Two requests with different CSRs, both signed, whose provisioner calls
\* interleave.
C11_Witness ==
    /\ Len(calls) = 4
    /\ calls[1].op = "Token" /\ calls[2].op = "Token"
    /\ calls[3].op = "Sign" /\ calls[3].req = calls[2].req
    /\ calls[4].op = "Sign" /\ calls[4].req = calls[1].req
    /\ request[1].body.csr # request[2].body.csr
    /\ \A r \in AllReqs : pc[r] = "done" /\ response[r].status = 201

\* What a request does when it is handled alone, as a function of the request
\* and of what the provisioner returned to it: its calls on the provisioner
\* and its response.
AloneCalls(r) ==
    IF ~ValidSignRequest(request[r]) THEN <<>>
    ELSE LET c == request[r].body.csr[1]
             tc == TokenCall(r, SelectSubject(c, BuildSans(c)), BuildSans(c))
         IN  IF returned[r] = <<>> \/ returned[r][1] # NoErr THEN <<tc>>
             ELSE <<tc, SignCall(r, request[r].body, token[r][1])>>

AloneResponse(r) ==
    LET rq == request[r]
    IN  IF rq.path # "/sign" THEN NotFound
        ELSE IF rq.body.json # "ok" THEN RenderError(BadRequest("error reading request body"))
        ELSE IF rq.body.csr = <<>> THEN RenderError(BadRequest("missing csr"))
        ELSE IF ~CheckSignature(rq.body.csr[1]) THEN RenderError(BadRequest("invalid csr"))
        ELSE IF returned[r][1] # NoErr THEN RenderError(returned[r][1])
        ELSE IF returned[r][2] # NoErr THEN RenderError(returned[r][2])
        ELSE RenderJSONStatus([crt |-> rq.body.csr[1], notAfter |-> rq.body.notAfter], 201)

\* The index in calls of the request's Token call.
OwnTokenIndex(r) == CHOOSE i \in TokenCalls : calls[i].req = r

SlotOf(r) ==
    <<pc[r], request[r], steps[r], subject[r], sans[r], token[r], response[r],
      returned[r], CallsOf(r)>>

\* C19: with two requests in the handler in any interleaving, the calls each
\* request makes on the provisioner (with their arguments) and the response
\* it gets are those of the request handled alone, the token passed to Sign
\* is the one minted for the request's own Token call, and a step of one
\* request changes nothing of the other request.
C19_RequestsIndependent ==
    /\ [](\A r \in AllReqs :
              pc[r] # "idle" =>
                  /\ CallsOf(r) = AloneCalls(r)
                  /\ Len(CallsOf(r)) = 2 =>
                         token[r] = <<MintToken(CallsOf(r)[1], OwnTokenIndex(r))>>
                  /\ pc[r] = "done" => response[r] = AloneResponse(r))
    /\ [][\A r \in AllReqs : pc'[r] = pc[r] => SlotOf(r)' = SlotOf(r)]_vars

C19_Witness ==
    /\ Len(calls) = 4
    /\ calls[1].op = "Token" /\ calls[2].op = "Token"
    /\ calls[3].op = "Sign" /\ calls[3].req = calls[1].req
    /\ calls[4].op = "Sign" /\ calls[4].req = calls[2].req
    /\ request[1].body.csr # request[2].body.csr
    /\ request[1].body.notAfter # request[2].body.notAfter
    /\ pc[1] = "done" /\ pc[2] = "done"
    /\ response[1].status = 201 /\ response[2].status # 201

\* The arguments of a request's calls, without the request's name and the
\* token's serial number.
CallArgs(r) ==
    [k \in 1..Len(CallsOf(r)) |->
        LET c == CallsOf(r)[k]
        IN  <<c.op, c.subject, c.sans, c.csr, c.notAfter,
              IF c.ott = <<>> THEN <<>> ELSE <<c.ott[1].subject, c.ott[1].sans>> >>]

\* C20: two requests with the same path and the same body, to which the
\* provisioner returned the same, run the same stages, make the same calls
\* and get the same response whatever their methods are.
C20_MethodIsIgnored ==
    \A r1, r2 \in AllReqs :
        (/\ pc[r1] # "idle" /\ pc[r2] # "idle"
         /\ request[r1].path = request[r2].path
         /\ request[r1].body = request[r2].body
         /\ returned[r1] = returned[r2]) =>
            /\ pc[r1] = pc[r2]
            /\ steps[r1] = steps[r2]
            /\ response[r1] = response[r2]
            /\ CallArgs(r1) = CallArgs(r2)

C20_Witness ==
    /\ request[1].path = "/sign" /\ request[2].path = "/sign"
    /\ request[1].method = "POST" /\ request[2].method = "GET"
    /\ request[1].body = request[2].body
    /\ pc[1] = "done" /\ pc[2] = "done"
    /\ response[1].status = 201 /\ response[2].status = 201

====
